---- MODULE Spec2Model ----
(***************************************************************************)
(* RunningAverage (uint16_t variant): a circular buffer of uint16_t        *)
(* samples with an incrementally maintained 16-bit sum, all-time min/max   *)
(* and a logical window (_partial) inside the allocated capacity (_size).  *)
(*                                                                         *)
(* The object's fields are the variables; every member function is a pure  *)
(* operator from the object (a record of the fields) to the object after   *)
(* the call, and one action applies it.  hist, op and arg are history      *)
(* variables: the values passed to addValue since the last clear(), the    *)
(* member function called last, and its arguments.                         *)
(***************************************************************************)
EXTENDS Integers, Sequences, FiniteSets

VARIABLES _size, _count, _index, _partial, _sum, _array, _min, _max,
          hist, op, arg

vars == <<_size, _count, _index, _partial, _sum, _array, _min, _max,
          hist, op, arg>>

(* ---------------------------------------------------------------------- *)
(* Bounds of the model                                                      *)
(* ---------------------------------------------------------------------- *)

\* largest capacity passed to the constructor
MaxSize == 3

\* largest number of addValue calls within one reset epoch
MaxAdds == 5

\* sample values: zero, two small ones, and the largest uint16_t, so that
\* two samples can exceed what the 16-bit _sum holds
Values == {0, 10, 20, 65535}

\* arguments of setPartial and the number argument of fillValue
Numbers == 0..(MaxSize + 1)

\* arguments of the queries (index, position, start, count): the small
\* numbers and the largest uint16_t
QueryArgs == Numbers \cup {65534, 65535}

(* ---------------------------------------------------------------------- *)
(* uint16_t                                                                 *)
(* ---------------------------------------------------------------------- *)

\* number of values of uint16_t, the type of _sum, of the samples and of
\* the counters
UINT16_RANGE == 65536

\* conversion of an int result to uint16_t
ToU16(x) == ((x % UINT16_RANGE) + UINT16_RANGE) % UINT16_RANGE

\* _array == NULL: malloc failed.  A successful allocation has _size >= 1
\* slots here, so the empty array stands for the null pointer only.
NULL == << >>

(* ---------------------------------------------------------------------- *)
(* The object                                                               *)
(* ---------------------------------------------------------------------- *)

This ==
  [_size |-> _size, _count |-> _count, _index |-> _index,
   _partial |-> _partial, _sum |-> _sum, _array |-> _array,
   _min |-> _min, _max |-> _max]

Load(r) ==
  /\ _size = r._size
  /\ _count = r._count
  /\ _index = r._index
  /\ _partial = r._partial
  /\ _sum = r._sum
  /\ _array = r._array
  /\ _min = r._min
  /\ _max = r._max

Store(r) ==
  /\ _size' = r._size
  /\ _count' = r._count
  /\ _index' = r._index
  /\ _partial' = r._partial
  /\ _sum' = r._sum
  /\ _array' = r._array
  /\ _min' = r._min
  /\ _max' = r._max

(* ---------------------------------------------------------------------- *)
(* clear(): resets all counters and zeroes the _size slots                  *)
(* ---------------------------------------------------------------------- *)

\* clear() had it not reset _min and _max
clearKeepsMinMax(r) ==
  [r EXCEPT !._count = 0, !._index = 0, !._sum = 0,
            !._array = [i \in 0..(r._size - 1) |-> 0]]

clear(r) ==
  [r EXCEPT !._count = 0, !._index = 0, !._sum = 0, !._min = 0, !._max = 0,
            !._array = [i \in 0..(r._size - 1) |-> 0]]

(* ---------------------------------------------------------------------- *)
(* RunningAverage(size): malloc may fail; _partial is set before the check  *)
(* ---------------------------------------------------------------------- *)

Construct(size, mallocOk) ==
  clear([_size |-> IF mallocOk THEN size ELSE 0,
         _count |-> 0, _index |-> 0,
         _partial |-> size,
         _sum |-> 0,
         _array |-> IF mallocOk THEN [i \in 0..(size - 1) |-> 0] ELSE NULL,
         _min |-> 0, _max |-> 0])

(* ---------------------------------------------------------------------- *)
(* addValue(value)                                                          *)
(* ---------------------------------------------------------------------- *)

\* the sum had the evicted sample not been subtracted
SumAfterAddKeepsEvicted(r, value) ==
  ToU16(r._sum + value)

\* the sum had the subtraction stopped at 0 instead of wrapping
SumAfterAddSaturating(r, value) ==
  ToU16((IF r._sum < r._array[r._index] THEN 0
         ELSE r._sum - r._array[r._index]) + value)

\* _sum -= _array[_index]; _array[_index] = value; _sum += _array[_index];
SumAfterAdd(r, value) ==
  ToU16(ToU16(r._sum - r._array[r._index]) + value)

\* the cursor had it wrapped at the capacity instead of the window size
NextIndexWrapAtSize(r) ==
  IF r._index + 1 = r._size THEN 0 ELSE r._index + 1

\* _index++; if (_index == _partial) _index = 0;
NextIndex(r) ==
  IF ToU16(r._index + 1) = r._partial THEN 0 ELSE ToU16(r._index + 1)

\* the minimum had the first sample of an epoch not been special-cased
MinAfterAddNoFirst(r, value) ==
  IF value < r._min THEN value ELSE r._min

\* if (_count == 0) _min = _max = value; else if (value < _min) _min = value;
MinAfterAdd(r, value) ==
  IF r._count = 0 THEN value
  ELSE IF value < r._min THEN value
  ELSE r._min

\* the maximum had the first sample of an epoch set _min only
MaxAfterAddFirstSetsMinOnly(r, value) ==
  IF r._count = 0 THEN r._max
  ELSE IF value < r._min THEN r._max
  ELSE IF value > r._max THEN value
  ELSE r._max

\* ... else if (value > _max) _max = value;  (reached only if value >= _min)
MaxAfterAdd(r, value) ==
  IF r._count = 0 THEN value
  ELSE IF value < r._min THEN r._max
  ELSE IF value > r._max THEN value
  ELSE r._max

\* if (_count < _partial) _count++;
CountAfterAdd(r) ==
  IF r._count < r._partial THEN r._count + 1 ELSE r._count

addValue(r, value) ==
  IF r._array = NULL THEN r
  ELSE [r EXCEPT !._sum = SumAfterAdd(r, value),
                 !._array = [r._array EXCEPT ![r._index] = value],
                 !._index = NextIndex(r),
                 !._min = MinAfterAdd(r, value),
                 !._max = MaxAfterAdd(r, value),
                 !._count = CountAfterAdd(r)]

(* ---------------------------------------------------------------------- *)
(* getAverage(): recomputes _sum over the physical slots 0.._count-1        *)
(* ---------------------------------------------------------------------- *)

RECURSIVE SumSlotsU16(_, _)
\* _sum = 0; for (i = 0; i < n; i++) _sum += _array[i];   in uint16_t
SumSlotsU16(a, n) ==
  IF n = 0 THEN 0 ELSE ToU16(SumSlotsU16(a, n - 1) + a[n - 1])

getAverage(r) ==
  IF r._count = 0 THEN r
  ELSE [r EXCEPT !._sum = SumSlotsU16(r._array, r._count)]

\* return _sum / _count  (0 if empty)
getFastAverage(r) ==
  IF r._count = 0 THEN 0 ELSE r._sum \div r._count

(* ---------------------------------------------------------------------- *)
(* fillValue(value, number)                                                 *)
(* ---------------------------------------------------------------------- *)

RECURSIVE AddTimes(_, _, _)
\* for (i = s; i > 0; i--) addValue(value);
AddTimes(r, value, s) ==
  IF s = 0 THEN r ELSE AddTimes(addValue(r, value), value, s - 1)

\* uint16_t s = number; if (s > _partial) s = _partial;
FillCount(r, number) == IF number > r._partial THEN r._partial ELSE number

fillValue(r, value, number) ==
  AddTimes(clear(r), value, FillCount(r, number))

(* ---------------------------------------------------------------------- *)
(* setPartial(partial)                                                      *)
(* ---------------------------------------------------------------------- *)

\* setPartial had it not mapped 0 to the capacity
setPartialKeepsZero(r, partial) ==
  clear([r EXCEPT !._partial =
           IF partial > r._size THEN r._size ELSE partial])

setPartial(r, partial) ==
  clear([r EXCEPT !._partial =
           IF (partial = 0) \/ (partial > r._size) THEN r._size ELSE partial])

(* ---------------------------------------------------------------------- *)
(* getMinInBuffer() / getMaxInBuffer(): scan of the slots 0.._count-1       *)
(* ---------------------------------------------------------------------- *)

RECURSIVE MinSlots(_, _)
\* _min = _array[0]; for (i = 1; i < n; i++) if (_array[i] < _min) ...
MinSlots(a, n) ==
  IF n <= 1 THEN a[0]
  ELSE IF a[n - 1] < MinSlots(a, n - 1) THEN a[n - 1] ELSE MinSlots(a, n - 1)

RECURSIVE MaxSlots(_, _)
MaxSlots(a, n) ==
  IF n <= 1 THEN a[0]
  ELSE IF a[n - 1] > MaxSlots(a, n - 1) THEN a[n - 1] ELSE MaxSlots(a, n - 1)

\* getMinInBuffer had it scanned the whole window instead of _count slots
getMinInBufferScansWindow(r) ==
  IF r._count = 0 THEN 0 ELSE MinSlots(r._array, r._partial)

getMinInBuffer(r) ==
  IF r._count = 0 THEN 0 ELSE MinSlots(r._array, r._count)

getMaxInBuffer(r) ==
  IF r._count = 0 THEN 0 ELSE MaxSlots(r._array, r._count)

(* ---------------------------------------------------------------------- *)
(* getAverageLast(count): walks back from the cursor, wrapping at _size     *)
(* ---------------------------------------------------------------------- *)

\* the result of a query that has no data (NAN in the source)
NAN == "NAN"

\* if (idx == 0) idx = _size; idx--;
StepBack(r, idx) == IF idx = 0 THEN r._size - 1 ELSE idx - 1

RECURSIVE SumLast(_, _, _)
\* the sum of the cnt slots reached by stepping back from idx
SumLast(r, idx, cnt) ==
  IF cnt = 0 THEN 0
  ELSE r._array[StepBack(r, idx)] + SumLast(r, StepBack(r, idx), cnt - 1)

\* uint16_t cnt = count; if (cnt > _count) cnt = _count;
LastCount(r, count) == IF count > r._count THEN r._count ELSE count

\* declared uint16_t: the quotient is truncated
getAverageLast(r, count) ==
  IF LastCount(r, count) = 0 THEN NAN
  ELSE SumLast(r, r._index, LastCount(r, count)) \div LastCount(r, count)

RECURSIVE MinLast(_, _, _)
\* the minimum of the cnt slots reached by stepping back from idx
MinLast(r, idx, cnt) ==
  IF cnt <= 1 THEN r._array[StepBack(r, idx)]
  ELSE IF r._array[StepBack(r, idx)] < MinLast(r, StepBack(r, idx), cnt - 1)
       THEN r._array[StepBack(r, idx)]
       ELSE MinLast(r, StepBack(r, idx), cnt - 1)

RECURSIVE MaxLast(_, _, _)
MaxLast(r, idx, cnt) ==
  IF cnt <= 1 THEN r._array[StepBack(r, idx)]
  ELSE IF r._array[StepBack(r, idx)] > MaxLast(r, StepBack(r, idx), cnt - 1)
       THEN r._array[StepBack(r, idx)]
       ELSE MaxLast(r, StepBack(r, idx), cnt - 1)

getMinInBufferLast(r, count) ==
  IF LastCount(r, count) = 0 THEN NAN
  ELSE MinLast(r, r._index, LastCount(r, count))

getMaxInBufferLast(r, count) ==
  IF LastCount(r, count) = 0 THEN NAN
  ELSE MaxLast(r, r._index, LastCount(r, count))

(* ---------------------------------------------------------------------- *)
(* getElement(index), getValue(position)                                    *)
(* ---------------------------------------------------------------------- *)

\* if (_count == 0) return 0;  return _array[index];
\* the slot the call reads, if any
getElementSlot(r, index) == IF r._count = 0 THEN {} ELSE {index}

\* uint16_t _pos = position + _index; if (_pos >= _count) _pos -= _count;
ValuePos(r, position) ==
  IF ToU16(position + r._index) >= r._count
  THEN ToU16(position + r._index) - r._count
  ELSE ToU16(position + r._index)

getValue(r, position) ==
  IF r._count = 0 THEN 0
  ELSE IF position >= r._count THEN 0
  ELSE r._array[ValuePos(r, position)]

(* ---------------------------------------------------------------------- *)
(* getAverageSubset(start, count): float in header and source               *)
(* ---------------------------------------------------------------------- *)

\* uint16_t cnt = _count; if (cnt > count) cnt = count;
SubsetCount(r, count) == IF r._count > count THEN count ELSE r._count

\* uint16_t idx = _index + start + i; while (idx >= _partial) idx -= _partial;
SubsetIdx(r, start, i) == ToU16(r._index + start + i) % r._partial

RECURSIVE SubsetSum(_, _, _)
\* the sum of the slots SubsetIdx(r, start, i), i = 0..cnt-1
SubsetSum(r, start, cnt) ==
  IF cnt = 0 THEN 0
  ELSE SubsetSum(r, start, cnt - 1) + r._array[SubsetIdx(r, start, cnt - 1)]

\* sum / cnt in float: kept as the fraction (0/0 is NAN)
getAverageSubset(r, start, count) ==
  IF r._count = 0 THEN NAN
  ELSE IF SubsetCount(r, count) = 0 THEN NAN
  ELSE [num |-> SubsetSum(r, start, SubsetCount(r, count)),
        den |-> SubsetCount(r, count)]

(* ---------------------------------------------------------------------- *)
(* getStandardDeviation(), getStandardError(), bufferIsFull()               *)
(* ---------------------------------------------------------------------- *)

RECURSIVE SumSq(_, _, _)
\* temp += pow((_array[i] - average), 2)  for i = 0..n-1
SumSq(a, n, average) ==
  IF n = 0 THEN 0
  ELSE SumSq(a, n - 1, average) + (a[n - 1] - average) * (a[n - 1] - average)

\* if (_count <= 1) return NAN; otherwise sqrt(temp / (_count - 1)), kept
\* as the fraction under the root
getStandardDeviation(r) ==
  IF r._count <= 1 THEN NAN
  ELSE [sumsq |-> SumSq(r._array, r._count, getFastAverage(r)),
        den |-> r._count - 1]

\* `temp == NAN` is false for every temp, so the division is always done:
\* n is _count (from 30 samples on) or _count - 1, and a NAN deviation
\* divided by anything stays NAN
getStandardError(r) ==
  IF r._count <= 1 THEN NAN
  ELSE [sd |-> getStandardDeviation(r),
        n |-> IF r._count >= 30 THEN r._count ELSE r._count - 1]

\* return _count == _size;
bufferIsFull(r) == r._count = r._size

(* ---------------------------------------------------------------------- *)
(* What the caller receives from the functions declared uint16_t            *)
(* ---------------------------------------------------------------------- *)

\* `return NAN;` in a function returning uint16_t converts a NaN to an
\* integer, which is undefined: the caller may receive any uint16_t
NanAsU16 == 0..(UINT16_RANGE - 1)

\* the values a call of getAverage() may return
getAverageResult(r) ==
  IF r._count = 0 THEN NanAsU16
  ELSE {getAverage(r)._sum \div r._count}

\* the values a call of getAverageLast(count) may return
getAverageLastResult(r, count) ==
  IF LastCount(r, count) = 0 THEN NanAsU16
  ELSE {getAverageLast(r, count)}

\* the values getMinInBufferLast(count) / getMaxInBufferLast(count) may return
getMinInBufferLastResult(r, count) ==
  IF LastCount(r, count) = 0 THEN NanAsU16
  ELSE {getMinInBufferLast(r, count)}

getMaxInBufferLastResult(r, count) ==
  IF LastCount(r, count) = 0 THEN NanAsU16
  ELSE {getMaxInBufferLast(r, count)}

\* the values getStandardDeviation() / getStandardError() may return (with
\* two samples or more: the value before the root and the conversion)
getStandardDeviationResult(r) ==
  IF r._count <= 1 THEN NanAsU16 ELSE {getStandardDeviation(r)}

getStandardErrorResult(r) ==
  IF r._count <= 1 THEN NanAsU16 ELSE {getStandardError(r)}

(* ---------------------------------------------------------------------- *)
(* The storage slots each member function reads or writes                   *)
(* ---------------------------------------------------------------------- *)

\* for (i = _size; i > 0; ) _array[--i] = 0;
clearSlots(r) == 0..(r._size - 1)

\* _array[_index], unless _array == NULL
addValueSlots(r) == IF r._array = NULL THEN {} ELSE {r._index}

RECURSIVE AddTimesSlots(_, _, _)
AddTimesSlots(r, value, s) ==
  IF s = 0 THEN {}
  ELSE addValueSlots(r) \cup AddTimesSlots(addValue(r, value), value, s - 1)

fillValueSlots(r, value, number) ==
  clearSlots(r) \cup AddTimesSlots(clear(r), value, FillCount(r, number))

\* the scans of getAverage, getMinInBuffer, getMaxInBuffer and (from two
\* samples on) getStandardDeviation: _array[0] .. _array[_count - 1]
scanSlots(r) == 0..(r._count - 1)

getValueSlots(r, position) ==
  IF r._count = 0 \/ position >= r._count THEN {}
  ELSE {ValuePos(r, position)}

RECURSIVE LastSlots(_, _, _)
\* the walk of getAverageLast, getMinInBufferLast and getMaxInBufferLast
LastSlots(r, idx, cnt) ==
  IF cnt = 0 THEN {}
  ELSE {StepBack(r, idx)} \cup LastSlots(r, StepBack(r, idx), cnt - 1)

getAverageLastSlots(r, count) ==
  LastSlots(r, r._index, LastCount(r, count))

getAverageSubsetSlots(r, start, count) ==
  IF r._count = 0 THEN {}
  ELSE {SubsetIdx(r, start, i) : i \in 0..(SubsetCount(r, count) - 1)}

(* ---------------------------------------------------------------------- *)
(* The state machine                                                        *)
(* ---------------------------------------------------------------------- *)

NoArg == [value |-> 0, number |-> 0]

Init ==
  \E size \in 1..MaxSize, mallocOk \in BOOLEAN :
    /\ Load(Construct(size, mallocOk))
    /\ hist = << >>
    /\ op = "RunningAverage"
    /\ arg = [value |-> 0, number |-> size]

Clear ==
  /\ Store(clear(This))
  /\ hist' = << >>
  /\ op' = "clear"
  /\ arg' = NoArg

AddValue ==
  \E value \in Values :
    /\ Len(hist) < MaxAdds
    /\ Store(addValue(This, value))
    /\ hist' = Append(hist, value)
    /\ op' = "addValue"
    /\ arg' = [value |-> value, number |-> 0]

FillValue ==
  \E value \in Values, number \in Numbers :
    /\ Store(fillValue(This, value, number))
    /\ hist' = [i \in 1..FillCount(This, number) |-> value]
    /\ op' = "fillValue"
    /\ arg' = [value |-> value, number |-> number]

SetPartial ==
  \E partial \in Numbers :
    /\ Store(setPartial(This, partial))
    /\ hist' = << >>
    /\ op' = "setPartial"
    /\ arg' = [value |-> 0, number |-> partial]

GetAverage ==
  /\ Store(getAverage(This))
  /\ hist' = hist
  /\ op' = "getAverage"
  /\ arg' = NoArg

Next == Clear \/ AddValue \/ FillValue \/ SetPartial \/ GetAverage

Spec == Init /\ [][Next]_vars

(* ---------------------------------------------------------------------- *)
(* The same object with a capacity above 2^15, where position + _index      *)
(* no longer fits the uint16_t that getValue computes it in                 *)
(* ---------------------------------------------------------------------- *)

\* a capacity above 32768
LargeSize == 32800

\* addValue calls made on top of the initial ones
LargeAdds == 3

\* the cursor positions the large buffer starts from
LargeStarts == {LargeSize - 2, LargeSize - 1}

\* the object after RunningAverage(size) and n >= size calls addValue(c)
Uniform(size, c, n) ==
  [_size |-> size, _count |-> size, _index |-> n % size, _partial |-> size,
   _sum |-> ToU16(c * size), _array |-> [i \in 0..(size - 1) |-> c],
   _min |-> c, _max |-> c]

\* RunningAverage(LargeSize), then LargeSize + k calls addValue(c)
InitLarge ==
  \E c \in {0, 20}, k \in LargeStarts :
    /\ Load(Uniform(LargeSize, c, LargeSize + k))
    /\ hist = SubSeq([i \in 1..(LargeSize + k) |-> c], 1, LargeSize + k)
    /\ op = "addValue"
    /\ arg = [value |-> c, number |-> 0]

AddValueLarge ==
  \E value \in Values :
    /\ Len(hist) < 2 * LargeSize + LargeAdds - 2
    /\ Store(addValue(This, value))
    /\ hist' = Append(hist, value)
    /\ op' = "addValue"
    /\ arg' = [value |-> value, number |-> 0]

NextLarge == AddValueLarge

SpecLarge == InitLarge /\ [][NextLarge]_vars

(* ---------------------------------------------------------------------- *)
(* What the claims speak of: the samples added in this reset epoch          *)
(* ---------------------------------------------------------------------- *)

\* malloc succeeded: the buffer has capacity >= 1 and addValue stores samples
Allocated == _array # NULL

RECURSIVE SeqSum(_)
SeqSum(q) == IF q = << >> THEN 0 ELSE q[1] + SeqSum(Tail(q))

SeqMin(q) == CHOOSE x \in {q[i] : i \in 1..Len(q)} :
               \A y \in {q[i] : i \in 1..Len(q)} : x <= y

SeqMax(q) == CHOOSE x \in {q[i] : i \in 1..Len(q)} :
               \A y \in {q[i] : i \in 1..Len(q)} : x >= y

RECURSIVE SumSlots(_, _)
\* the exact (unbounded) sum of the slots 0..n-1 of a
SumSlots(a, n) == IF n = 0 THEN 0 ELSE SumSlots(a, n - 1) + a[n - 1]

\* the last n elements of q (all of q if it has fewer)
LastN(q, n) ==
  IF Len(q) <= n THEN q ELSE SubSeq(q, Len(q) - n + 1, Len(q))

\* the samples the window holds: the last min(adds, window size) added
Held == LastN(hist, _partial)

\* the i-th oldest of them (i = 1 the oldest), read off hist directly
HeldAt(i) ==
  hist[Len(hist) - (IF Len(hist) <= _partial THEN Len(hist) ELSE _partial) + i]

(* ---------------------------------------------------------------------- *)
(* C1                                                                       *)
(* ---------------------------------------------------------------------- *)

\* C1: from a cleared buffer, after N addValue calls with 1 <= N <= window
\* size, getFastAverage() is the truncated arithmetic mean of the N values.
C1_FastAverageIsMean ==
  (Allocated /\ Len(hist) >= 1 /\ Len(hist) <= _partial)
    => getFastAverage(This) = SeqSum(hist) \div Len(hist)

(* ---------------------------------------------------------------------- *)
(* C2                                                                       *)
(* ---------------------------------------------------------------------- *)

\* C2: after more than windowSize addValue calls since the last clear, the
\* k-th value added lies in slot (k-1) mod windowSize for each of the last
\* windowSize values (so the slots 0..windowSize-1 hold exactly those, the
\* older ones evicted oldest first), getCount() is windowSize, and
\* getFastAverage() is the 16-bit sum of those values over windowSize.
C2_HoldsLastWindow ==
  (Allocated /\ Len(hist) > _partial)
    => /\ _count = _partial
       /\ \A k \in (Len(hist) - _partial + 1)..Len(hist) :
            _array[(k - 1) % _partial] = hist[k]
       /\ getFastAverage(This) = ToU16(SeqSum(Held)) \div _partial

\* the cursor has wrapped in a window smaller than the capacity, evicting
\* a sample that differs from the ones held
C2_Witness ==
  /\ Allocated
  /\ _partial = 2
  /\ _size = 3
  /\ hist = <<10, 20, 65535>>
  /\ op = "addValue"

(* ---------------------------------------------------------------------- *)
(* C3                                                                       *)
(* ---------------------------------------------------------------------- *)

\* C3: after every mutating operation, _sum equals the sum of the _count
\* currently valid stored samples.
C3_SumIsSumOfHeld ==
  Allocated => /\ _sum = SeqSum(Held)
               /\ _sum = SumSlots(_array, _count)

(* ---------------------------------------------------------------------- *)
(* C4                                                                       *)
(* ---------------------------------------------------------------------- *)

\* C4: in every reachable state, failed allocation or not,
\* 0 <= _count <= _partial <= _size, and with capacity >= 1 the cursor
\* satisfies 0 <= _index < _partial.
C4_CountWindowCapacity ==
  /\ 0 <= _count
  /\ _count <= _partial
  /\ _partial <= _size
  /\ (_size >= 1 => (0 <= _index /\ _index < _partial))

(* ---------------------------------------------------------------------- *)
(* C5                                                                       *)
(* ---------------------------------------------------------------------- *)

\* the fields of a buffer of the given capacity and window size on which
\* nothing has been added yet
IsFresh(r, size, partial) ==
  /\ r._size = size
  /\ r._partial = partial
  /\ r._count = 0
  /\ r._index = 0
  /\ r._sum = 0
  /\ r._min = 0
  /\ r._max = 0
  /\ DOMAIN r._array = 0..(size - 1)
  /\ \A i \in 0..(size - 1) : r._array[i] = 0

\* the window size setPartial(p) is documented to select
EffectivePartial(p, size) == IF (p = 0) \/ (p > size) THEN size ELSE p

\* C5: clear() leaves exactly the state of a fresh buffer of the same
\* capacity and window size; setPartial(p) leaves exactly the state of a
\* fresh buffer of that capacity with the effective window size.
C5_ClearIsFresh ==
  [][ /\ (op' = "clear") => IsFresh(This', _size, _partial)
      /\ (op' = "setPartial")
            => IsFresh(This', _size, EffectivePartial(arg'.number, _size))
    ]_vars

\* clear() has run on an allocated buffer whose window is smaller than
\* its capacity
C5_Witness ==
  /\ op = "clear"
  /\ Allocated
  /\ _partial = 2
  /\ _size = 3
  /\ IsFresh(This, 3, 2)

(* ---------------------------------------------------------------------- *)
(* C6                                                                       *)
(* ---------------------------------------------------------------------- *)

\* C6: within a reset epoch, after at least one addValue, getMin()/getMax()
\* are the minimum/maximum of all values passed to addValue since the last
\* clear, evicted ones included; and across successive addValue calls
\* getMin() never increases and getMax() never decreases.
C6_MinMaxOfEpoch ==
  /\ [] ((Allocated /\ Len(hist) >= 1)
           => (_min = SeqMin(hist) /\ _max = SeqMax(hist)))
  /\ [][ (Allocated /\ Len(hist) >= 1 /\ op' = "addValue")
           => (_min' <= _min /\ _max' >= _max) ]_vars

\* the minimum and the maximum of the epoch have both been evicted
C6_Witness ==
  /\ Allocated
  /\ _partial = 1
  /\ hist = <<0, 65535, 10>>
  /\ _min = 0
  /\ _max = 65535

(* ---------------------------------------------------------------------- *)
(* C7                                                                       *)
(* ---------------------------------------------------------------------- *)

\* C7: with _count >= 1, getMinInBuffer()/getMaxInBuffer() are the
\* minimum/maximum of exactly the samples held in the window, for every
\* window size and before and after the cursor has wrapped.
C7_BufferMinMax ==
  (Allocated /\ _count >= 1)
    => /\ getMinInBuffer(This) = SeqMin(Held)
       /\ getMaxInBuffer(This) = SeqMax(Held)

\* a partly filled window smaller than the capacity
C7_Witness ==
  /\ Allocated
  /\ _size = 3
  /\ _partial = 2
  /\ hist = <<20>>
  /\ getMinInBuffer(This) = 20

(* ---------------------------------------------------------------------- *)
(* C8                                                                       *)
(* ---------------------------------------------------------------------- *)

\* C8: fillValue(v, k) with k >= 1 on a buffer with window size >= 1,
\* followed by getFastAverage(), returns v.
C8_FillThenFastAverage ==
  (Allocated /\ op = "fillValue" /\ arg.number >= 1 /\ _partial >= 1)
    => getFastAverage(This) = arg.value

(* ---------------------------------------------------------------------- *)
(* C9                                                                       *)
(* ---------------------------------------------------------------------- *)

\* C9: whenever the buffer is full, for every window size and cursor
\* position, getAverageLast(windowSize) equals getFastAverage().  Stated
\* for the full buffers whose samples sum to less than 2^16, where _sum has
\* not wrapped and getFastAverage() is the exact mean: a difference there
\* is getAverageLast's own.
C9_AverageLastIsFastAverage ==
  (Allocated /\ _count >= 1 /\ _count = _partial
     /\ SeqSum(Held) < UINT16_RANGE)
    => getAverageLast(This, _partial) = getFastAverage(This)

(* ---------------------------------------------------------------------- *)
(* C10                                                                      *)
(* ---------------------------------------------------------------------- *)

\* C10: setPartial(p) sets the window size to p when 1 <= p <= capacity and
\* to the capacity when p = 0 or p > capacity, and clears all state;
\* afterwards addValue cycles over the slots 0..windowSize-1 only: the
\* cursor stays in the window, the slots beyond it stay 0 and the samples
\* held are in the slots 0.._count-1 (window 2, add 10 then 20:
\* getFastAverage() = 15, getCount() = 2).
C10_SetPartial ==
  /\ [][ (op' = "setPartial")
           => /\ _partial' = (IF 1 <= arg'.number /\ arg'.number <= _size
                              THEN arg'.number ELSE _size)
              /\ _size' = _size
              /\ _count' = 0 /\ _index' = 0 /\ _sum' = 0
              /\ _min' = 0 /\ _max' = 0
              /\ \A i \in DOMAIN _array' : _array'[i] = 0 ]_vars
  /\ [] (Allocated
           => /\ _index < _partial
              /\ _index = Len(hist) % _partial
              /\ \A i \in DOMAIN _array : (i >= _partial => _array[i] = 0)
              /\ (_partial = 2 /\ hist = <<10, 20>>)
                   => (getFastAverage(This) = 15 /\ _count = 2))

\* capacity 3, setPartial(2), then 10 and 20 added
C10_Witness ==
  /\ Allocated
  /\ _size = 3
  /\ _partial = 2
  /\ hist = <<10, 20>>
  /\ _count = 2
  /\ getFastAverage(This) = 15

(* ---------------------------------------------------------------------- *)
(* C11                                                                      *)
(* ---------------------------------------------------------------------- *)

\* the slots of the storage: 0 .. capacity-1
InBounds(slots) == slots \subseteq 0..(_size - 1)

\* every member function but getElement stays inside the storage
C11_AllButGetElementInBounds ==
  /\ InBounds(clearSlots(This))
  /\ InBounds(addValueSlots(This))
  /\ InBounds(scanSlots(This))
  /\ \A v \in Values, n \in Numbers : InBounds(fillValueSlots(This, v, n))
  /\ \A p \in Numbers : InBounds(clearSlots(setPartial(This, p)))
  /\ \A a \in QueryArgs :
       /\ InBounds(getValueSlots(This, a))
       /\ InBounds(getAverageLastSlots(This, a))
       /\ \A b \in QueryArgs : InBounds(getAverageSubsetSlots(This, a, b))

\* C11: no operation, with any arguments in any reachable state, reads or
\* writes a storage slot outside [0, capacity); out-of-range positions and
\* indices give a sentinel instead (getElement included).
C11_NoOutOfBounds ==
  /\ C11_AllButGetElementInBounds
  /\ \A index \in QueryArgs : InBounds(getElementSlot(This, index))

(* ---------------------------------------------------------------------- *)
(* C12                                                                      *)
(* ---------------------------------------------------------------------- *)

\* after a failed allocation no call touches a slot, getSize() and
\* getCount() stay 0, and the queries that return 0 or a float NAN on an
\* empty buffer do so
C12_InertButForNanAsU16 ==
  (_array = NULL)
    => /\ _size = 0
       /\ _count = 0
       /\ clearSlots(This) = {}
       /\ addValueSlots(This) = {}
       /\ \A v \in Values, n \in Numbers : fillValueSlots(This, v, n) = {}
       /\ \A p \in Numbers : clearSlots(setPartial(This, p)) = {}
       /\ \A a \in QueryArgs :
            /\ getElementSlot(This, a) = {}
            /\ getValueSlots(This, a) = {}
            /\ getAverageLastSlots(This, a) = {}
            /\ getValue(This, a) = 0
            /\ \A b \in QueryArgs :
                 /\ getAverageSubsetSlots(This, a, b) = {}
                 /\ getAverageSubset(This, a, b) = NAN
       /\ getFastAverage(This) = 0
       /\ getMinInBuffer(This) = 0
       /\ getMaxInBuffer(This) = 0
       /\ _min = 0
       /\ _max = 0
       /\ getAverage(This) = This

\* C12: if the allocation in the constructor fails the buffer is inert: no
\* storage slot is ever accessed, getSize() and getCount() stay 0, and
\* every query reports the empty-buffer result, 0 or the no-data sentinel
\* (0 where the result is an integer, NAN where it is a float).
C12_FailedAllocationIsInert ==
  /\ C12_InertButForNanAsU16
  /\ (_array = NULL)
       => /\ getAverageResult(This) = {0}
          /\ getStandardDeviationResult(This) = {0}
          /\ getStandardErrorResult(This) = {0}
          /\ \A a \in QueryArgs :
               /\ getAverageLastResult(This, a) = {0}
               /\ getMinInBufferLastResult(This, a) = {0}
               /\ getMaxInBufferLastResult(This, a) = {0}

(* ---------------------------------------------------------------------- *)
(* C13                                                                      *)
(* ---------------------------------------------------------------------- *)

\* C13: bufferIsFull() is true exactly when the number of held samples has
\* saturated at the window size, for every window size set by setPartial.
C13_BufferIsFull ==
  Allocated => (bufferIsFull(This) <=> (_count = _partial))

(* ---------------------------------------------------------------------- *)
(* C14                                                                      *)
(* ---------------------------------------------------------------------- *)

\* on an empty buffer the calls leave the state alone, and getAverageSubset
\* (a float) returns NAN
C14_EmptyLeavesStateAndSubsetIsNan ==
  (_count = 0)
    => /\ getAverage(This) = This
       /\ \A a \in QueryArgs, b \in QueryArgs :
            getAverageSubset(This, a, b) = NAN

\* C14: on an empty buffer getAverage(), getAverageLast(n) and
\* getAverageSubset(s, n) return the no-data sentinel for every argument
\* (0 where the result is an integer, NAN where it is a float),
\* getStandardDeviation() returns it whenever _count <= 1, and none of
\* these calls changes the buffer state.
C14_EmptyReturnsSentinel ==
  /\ C14_EmptyLeavesStateAndSubsetIsNan
  /\ (_count = 0)
       => /\ getAverageResult(This) = {0}
          /\ \A n \in QueryArgs : getAverageLastResult(This, n) = {0}
  /\ (_count <= 1) => getStandardDeviationResult(This) = {0}

(* ---------------------------------------------------------------------- *)
(* C15                                                                      *)
(* ---------------------------------------------------------------------- *)

\* C15: for every position p < _count, getValue(p) is the p-th oldest sample
\* held (p = 0 the oldest, p = _count - 1 the newest), partly filled or
\* wrapped; for p >= _count or an empty buffer it is 0.
C15_GetValueIsPthOldest ==
  Allocated
    => /\ \A p \in 0..(_count - 1) : getValue(This, p) = HeldAt(p + 1)
       /\ \A p \in QueryArgs : p >= _count => getValue(This, p) = 0

\* Uniform is what the constructor and the addValue calls produce: checked
\* here on the small capacities
C15_UniformIsReached ==
  (Allocated /\ _partial = _size /\ Len(hist) >= _size
     /\ \A i \in 1..Len(hist) : hist[i] = hist[1])
    => This = Uniform(_size, hist[1], Len(hist))

(* ---------------------------------------------------------------------- *)
(* C16                                                                      *)
(* ---------------------------------------------------------------------- *)

\* C16: for every count, getAverageLast(count), getMinInBufferLast(count)
\* and getMaxInBufferLast(count) are computed over exactly the
\* min(count, _count) most recently added samples, for every window size;
\* no slot outside the window contributes.
C16_LastOverMostRecent ==
  Allocated
    => \A count \in QueryArgs :
         LastCount(This, count) >= 1
           => /\ getAverageLast(This, count)
                   = SeqSum(LastN(hist, LastCount(This, count)))
                       \div LastCount(This, count)
              /\ getMinInBufferLast(This, count)
                   = SeqMin(LastN(hist, LastCount(This, count)))
              /\ getMaxInBufferLast(This, count)
                   = SeqMax(LastN(hist, LastCount(This, count)))
              /\ getAverageLastSlots(This, count) \subseteq 0..(_partial - 1)

(* ---------------------------------------------------------------------- *)
(* C17                                                                      *)
(* ---------------------------------------------------------------------- *)

RECURSIVE MathSubsetSum(_, _)
\* the sum of the slots (_index + start + i) mod window size, i = 0..n-1,
\* the index taken as an unbounded integer
MathSubsetSum(start, n) ==
  IF n = 0 THEN 0
  ELSE MathSubsetSum(start, n - 1)
         + _array[(_index + start + (n - 1)) % _partial]

\* C17: on a non-empty buffer, for all uint16 start and count >= 1,
\* getAverageSubset(start, count) is the mean of the n = min(count, _count)
\* slots (_index + start + i) mod windowSize, i = 0..n-1, the sum
\* _index + start + i not wrapping; every slot read is in [0, windowSize).
C17_SubsetAverage ==
  (Allocated /\ _count >= 1)
    => \A start \in QueryArgs, count \in QueryArgs \ {0} :
         /\ getAverageSubset(This, start, count)
              = [num |-> MathSubsetSum(start, SubsetCount(This, count)),
                 den |-> SubsetCount(This, count)]
         /\ getAverageSubsetSlots(This, start, count) \subseteq 0..(_partial - 1)

(* ---------------------------------------------------------------------- *)
(* C18                                                                      *)
(* ---------------------------------------------------------------------- *)

\* C18: on a non-empty buffer getAverage() changes nothing: the sum it
\* recomputes over the slots 0.._count-1 is the _sum it replaces, in every
\* reachable state, and it returns what getFastAverage() returns.
C18_GetAverageChangesNothing ==
  (_count >= 1)
    => /\ getAverage(This) = This
       /\ getAverageResult(This) = {getFastAverage(This)}

\* getAverage() has run on a window smaller than the capacity that has
\* wrapped and whose samples sum to more than 16 bits hold
C18_Witness ==
  /\ op = "getAverage"
  /\ _size = 3
  /\ _partial = 2
  /\ hist = <<10, 65535, 20>>
  /\ _sum = 19

(* ---------------------------------------------------------------------- *)
(* C19                                                                      *)
(* ---------------------------------------------------------------------- *)

\* C19: in every reachable state _sum is the sum of the held samples modulo
\* 2^16; so whenever that sum is below 2^16, _sum is exactly it and
\* getFastAverage() the exact truncated mean, even if _sum wrapped before.
C19_SumModulo ==
  Allocated
    => /\ _sum = ToU16(SeqSum(Held))
       /\ (SeqSum(Held) < UINT16_RANGE /\ _count >= 1)
            => /\ _sum = SeqSum(Held)
               /\ getFastAverage(This) = SeqSum(Held) \div Len(Held)

\* _sum wrapped on the second sample and below zero on the third; since
\* the large samples left the window it is exact again
C19_Witness ==
  /\ Allocated
  /\ _partial = 2
  /\ hist = <<65535, 65535, 10, 20>>
  /\ _sum = 30
  /\ getFastAverage(This) = 15

(* ---------------------------------------------------------------------- *)
(* C20                                                                      *)
(* ---------------------------------------------------------------------- *)

\* C20: with _count >= 1 the all-time extremes bound the window extremes:
\* getMin() <= getMinInBuffer() <= getMaxInBuffer() <= getMax().
C20_ExtremesNested ==
  (_count >= 1)
    => /\ _min <= getMinInBuffer(This)
       /\ getMinInBuffer(This) <= getMaxInBuffer(This)
       /\ getMaxInBuffer(This) <= _max

\* both all-time extremes have left the window: all four values differ
C20_Witness ==
  /\ _partial = 2
  /\ hist = <<65535, 0, 10, 20>>
  /\ _min = 0
  /\ getMinInBuffer(This) = 10
  /\ getMaxInBuffer(This) = 20
  /\ _max = 65535


====
